---- MODULE Spec2Model ----
(***************************************************************************)
(* A model of the bitpiece packing engine: the bit codec (src/src/utils.rs), *)
(* the value converters of bool, uN/iN, B1..B64 and SB1..SB64               *)
(* (src/src/impls), the converters the #[bitpiece] macro generates for      *)
(* enums and structs (src/bitpiece_macros/src) and the mutable windows       *)
(* (src/src/mut_ref.rs).                                                     *)
(*                                                                           *)
(* An unsigned or signed machine integer of width W is modelled by the set   *)
(* of the positions of its one bits, a subset of 0..W-1 (bit 0 is the least  *)
(* significant bit; a signed integer is its two's complement pattern).  All  *)
(* 64 bits are therefore kept, and every operation of the source is          *)
(* translated to the same operation on bit patterns.                         *)
(***************************************************************************)
EXTENDS Integers, Naturals, Sequences, FiniteSets, TLC

VARIABLES
    ty,     \* the piece type the program works with (a type descriptor)
    op,     \* the name of the last operation executed
    arg,    \* the argument of the last operation
    val,    \* the outcome of the last construction: the current piece value
    out     \* the outcome of the last read of the current piece value

vars == <<ty, op, arg, val, out>>

-----------------------------------------------------------------------------
(* Bounds of the model.                                                     *)

\* number of bit positions probed on each side of a type's width boundary
ProbeSpan == 1

-----------------------------------------------------------------------------
(* Machine integers as sets of one-bit positions.                           *)

SetMax(s) == CHOOSE m \in s : \A x \in s : x <= m
SetMin(s) == CHOOSE m \in s : \A x \in s : m <= x

\* `x as uW`: truncation to W bits (zero extension is the identity)
Trunc(v, W) == {i \in v : i < W}

\* `v >> k`
Shr(v, k) == {i - k : i \in {j \in v : j >= k}}

\* `v << k` on a W-bit integer: bits shifted above W-1 are lost
Shl(v, k, W) == {i + k : i \in {j \in v : j + k < W}}

\* `!v` on a W-bit integer
Not(v, W) == (0 .. (W - 1)) \ v

\* `v.wrapping_sub(1)` on a W-bit integer
WrappingSub1(v, W) ==
    IF v = {} THEN 0 .. (W - 1)
    ELSE LET m == SetMin(v) IN (v \ {m}) \cup (0 .. (m - 1))

\* `v.wrapping_neg()` on a W-bit integer
WrappingNeg(v, W) ==
    IF v = {} THEN {}
    ELSE LET m == SetMin(v) IN {m} \cup {i \in (m + 1) .. (W - 1) : i \notin v}

\* unsigned `a < b` and `a <= b`
ULt(a, b) == a # b /\ SetMax((a \ b) \cup (b \ a)) \in b
ULe(a, b) == a = b \/ ULt(a, b)

\* signed `a <= b` on W-bit two's complement integers
SLe(a, b, W) ==
    LET sa == (W - 1) \in a
        sb == (W - 1) \in b
    IN  IF sa # sb THEN sa ELSE ULe(a, b)

\* the bit pattern of a natural number (an integer literal of the source)
RECURSIVE FromNatAt(_, _)
FromNatAt(n, i) ==
    IF n = 0 THEN {}
    ELSE (IF n % 2 = 1 THEN {i} ELSE {}) \cup FromNatAt(n \div 2, i + 1)
FromNat(n) == FromNatAt(n, 0)

-----------------------------------------------------------------------------
(* Option<T> and a panic.                                                   *)

Some(v) == [tag |-> "Some", v |-> v]
None == [tag |-> "None", v |-> {}]
Panic == [tag |-> "Panic", v |-> {}]

\* Option::unwrap
unwrap(o) == IF o.tag = "Some" THEN o ELSE Panic

-----------------------------------------------------------------------------
(* Type descriptors: what the macros and the impls know about a type.       *)

Ty(kind, bits, variants, fields) ==
    [kind |-> kind, bits |-> bits, variants |-> variants, fields |-> fields]

BoolTy == Ty("bool", 1, <<>>, <<>>)
UTy(n) == Ty("U", n, <<>>, <<>>)
ITy(n) == Ty("I", n, <<>>, <<>>)
BTy(n) == Ty("B", n, <<>>, <<>>)
SBTy(n) == Ty("SB", n, <<>>, <<>>)
\* an enum with the declared discriminants; explicit = 0: no explicit length
EnumTy(explicit, variants) == Ty("enum", explicit, variants, <<>>)
StructTy(fields) == Ty("struct", 0, <<>>, fields)

-----------------------------------------------------------------------------
(* Layout: bit lengths, storage widths, field offsets.                      *)

\* usize::next_power_of_two
RECURSIVE Pow2AtLeast(_, _)
Pow2AtLeast(n, p) == IF p >= n THEN p ELSE Pow2AtLeast(n, 2 * p)
next_power_of_two(n) == Pow2AtLeast(n, 1)

\* a faulty storage width: the power of two is not raised to 8
exact_associated_storage_bit_length_unclamped(bit_length) ==
    next_power_of_two(bit_length)

\* the width of the smallest storage type for bit_length bits
exact_associated_storage_bit_length(bit_length) ==
    LET power_of_2 == next_power_of_two(bit_length)
    IN  IF power_of_2 < 8 THEN 8 ELSE power_of_2

\* the largest element of a non-empty array, scanned left to right
RECURSIVE ArrayMaxFrom(_, _, _)
ArrayMaxFrom(array, i, max) ==
    IF i > Len(array) THEN max
    ELSE ArrayMaxFrom(array, i + 1, IF array[i] > max THEN array[i] ELSE max)
const_array_max_u64(array) == ArrayMaxFrom(array, 2, array[1])

\* a faulty minimum: the first element of the array
const_array_first_u64(array) == array[1]

\* the smallest element of a non-empty array, scanned left to right
RECURSIVE ArrayMinFrom(_, _, _)
ArrayMinFrom(array, i, min) ==
    IF i > Len(array) THEN min
    ELSE ArrayMinFrom(array, i + 1, IF array[i] < min THEN array[i] ELSE min)
const_array_min_u64(array) == ArrayMinFrom(array, 2, array[1])

\* a faulty bits_required: the index of the highest one-bit, one bit short
bits_required_short(variant_value) ==
    LET b == FromNat(variant_value) IN IF b = {} THEN 0 ELSE SetMax(b)

\* 64 - variant_value.leading_zeros()
bits_required(variant_value) ==
    LET b == FromNat(variant_value) IN IF b = {} THEN 0 ELSE SetMax(b) + 1

\* the derived bit length of an enum: the most bits any discriminant needs
enum_bit_len(variants) ==
    const_array_max_u64([i \in 1 .. Len(variants) |-> bits_required(variants[i])])

\* <T as BitPiece>::BITS
RECURSIVE BITS(_)
RECURSIVE calc_bit_len(_, _)
calc_bit_len(fields, n) ==
    IF n = 0 THEN 0 ELSE calc_bit_len(fields, n - 1) + BITS(fields[n])
BITS(t) ==
    CASE t.kind = "bool" -> 1
      [] t.kind \in {"U", "I", "B", "SB"} -> t.bits
      [] t.kind = "enum" -> (IF t.bits # 0 THEN t.bits ELSE enum_bit_len(t.variants))
      [] t.kind = "struct" -> calc_bit_len(t.fields, Len(t.fields))

\* the width of <T as BitPiece>::Bits
StorageBits(t) ==
    CASE t.kind = "bool" -> 8
      [] t.kind \in {"U", "I"} -> t.bits
      [] OTHER -> exact_associated_storage_bit_length(BITS(t))

\* the <FIELD>_LEN and <FIELD>_OFFSET constants of a struct (fields from 1)
\* a faulty layout: every field starts on a byte boundary
FieldOffset_byte_aligned(t, i) == (i - 1) * 8

FieldLen(t, i) == BITS(t.fields[i])
RECURSIVE FieldOffset(_, _)
FieldOffset(t, i) ==
    IF i = 1 THEN 0 ELSE FieldOffset(t, i - 1) + FieldLen(t, i - 1)

-----------------------------------------------------------------------------
(* The bit codec, on u64.                                                   *)

\* a faulty mask: one bit short
extract_bits_mask_short(len) == Shr(0 .. 63, 64 - len + 1)

extract_bits_mask(len) == Shr(0 .. 63, 64 - len)

extract_bits_shifted_mask(offset, len) == Shl(extract_bits_mask(len), offset, 64)

\* a faulty extract_bits: the field's bits are masked but not moved down
extract_bits_unshifted(value, offset, len) ==
    value \cap extract_bits_shifted_mask(offset, len)

extract_bits(value, offset, len) ==
    LET mask == extract_bits_mask(len)
    IN  Shr(value, offset) \cap mask

\* a faulty extract_bits_noshift: the bits are moved down to bit 0
extract_bits_noshift_shifted(value, offset, len) ==
    Shr(value, offset) \cap extract_bits_mask(len)

extract_bits_noshift(value, offset, len) ==
    value \cap extract_bits_shifted_mask(offset, len)

\* a faulty modify_bits: the bits of the range are not cleared first
modify_bits_uncleared(value, offset, len, new_value) ==
    value \cup Shl(new_value, offset, 64)

modify_bits(value, offset, len, new_value) ==
    LET shifted_mask == extract_bits_shifted_mask(offset, len)
        without_original_bits == value \cap Not(shifted_mask, 64)
        shifted_new_value == Shl(new_value, offset, 64)
    IN  without_original_bits \cup shifted_new_value

-----------------------------------------------------------------------------
(* B1..B64: unsigned integers of n bits in the storage type of n bits.      *)

B_ONES(n) ==
    LET W == exact_associated_storage_bit_length(n)
    IN  IF n = W THEN 0 .. (W - 1) ELSE WrappingSub1(Shl({0}, n, W), W)

\* a faulty try_new: the largest value is rejected too
B_try_new_strict(n, value) == IF ULt(value, B_ONES(n)) THEN Some(value) ELSE None

\* a faulty try_new: a value out of range panics
B_try_new_unwrapping(n, value) == IF ULe(value, B_ONES(n)) THEN Some(value) ELSE Panic

B_try_new(n, value) == IF ULe(value, B_ONES(n)) THEN Some(value) ELSE None

B_new(n, value) == unwrap(B_try_new(n, value))

B_try_from_bits(n, bits) == B_try_new(n, bits)

B_from_bits(n, bits) == B_new(n, bits)

B_to_bits(n, x) == x

-----------------------------------------------------------------------------
(* SB1..SB64: signed integers of n bits; the value is kept sign-extended in *)
(* the signed storage type.                                                 *)

SB_STORAGE_MASK(n) ==
    LET W == exact_associated_storage_bit_length(n)
    IN  IF n = W THEN 0 .. (W - 1) ELSE WrappingSub1(Shl({0}, n, W), W)

\* a faulty MIN: the range is taken symmetric, -(2^(n-1) - 1)
SB_MIN_symmetric(n) ==
    LET W == exact_associated_storage_bit_length(n)
    IN  WrappingNeg(WrappingSub1(Shl({0}, n - 1, W), W), W)

SB_MIN(n) ==
    LET W == exact_associated_storage_bit_length(n)
    IN  WrappingNeg(Shl({0}, n - 1, W), W)

SB_MAX(n) ==
    LET W == exact_associated_storage_bit_length(n)
    IN  WrappingSub1(Shl({0}, n - 1, W), W)

SB_try_new(n, value) ==
    LET W == exact_associated_storage_bit_length(n)
    IN  IF SLe(value, SB_MAX(n), W) /\ SLe(SB_MIN(n), value, W)
        THEN Some(value) ELSE None

SB_new(n, value) == unwrap(SB_try_new(n, value))

\* a faulty try_from_bits: the raw bits are taken without sign extension
SB_try_from_bits_zero_extended(n, bits) == SB_try_new(n, bits)

SB_try_from_bits(n, bits) ==
    LET W == exact_associated_storage_bit_length(n)
        sign_bit == Shr(bits, n - 1) \cap {0}
        sign_extended ==
            IF sign_bit # {} THEN bits \cup Not(SB_STORAGE_MASK(n), W) ELSE bits
    IN  SB_try_new(n, sign_extended)

\* a faulty from_bits: the raw bits are taken as the value, unvalidated
SB_from_bits_unchecked(n, bits) == Some(bits)

SB_from_bits(n, bits) == unwrap(SB_try_from_bits(n, bits))

SB_to_bits(n, x) == x \cap SB_STORAGE_MASK(n)

-----------------------------------------------------------------------------
(* bool, uN and iN.                                                         *)

\* a faulty try_from_bits: only 0 and 1 are accepted
bool_try_from_bits_strict(bits) ==
    IF bits \subseteq {0} THEN Some(bits # {}) ELSE None

bool_try_from_bits(bits) == Some(bits # {})
bool_from_bits(bits) == Some(bits # {})
bool_to_bits(x) == IF x THEN {0} ELSE {}

U_try_from_bits(bits) == Some(bits)
U_from_bits(bits) == Some(bits)
U_to_bits(x) == x

\* `bits as iN` and `x as uN` keep the bit pattern
I_try_from_bits(bits) == Some(bits)
I_from_bits(bits) == Some(bits)
I_to_bits(x) == x

-----------------------------------------------------------------------------
(* Enums: a value is the index of its variant in declaration order.         *)

\* the constant Vi: the discriminant of variant i cast to the storage type
enum_const(t, i) == Trunc(FromNat(t.variants[i]), StorageBits(t))

\* match bits { V0 => Some(variant 0), V1 => ..., _ => None }
enum_try_from_bits(t, bits) ==
    LET arms == {i \in 1 .. Len(t.variants) : enum_const(t, i) = bits}
    IN  IF arms = {} THEN None ELSE Some(SetMin(arms))

\* a faulty to_bits: the position of the variant, not its discriminant
enum_to_bits_ordinal(t, x) == Trunc(FromNat(x - 1), StorageBits(t))

\* self as storage_type
enum_to_bits(t, x) == Trunc(FromNat(t.variants[x]), StorageBits(t))

-----------------------------------------------------------------------------
(* Structs and the conversions of every type.  A struct value is the record *)
(* [storage |-> bits], as the generated struct has the one field `storage`. *)

RECURSIVE try_from_bits(_, _)
RECURSIVE struct_try_from_bits(_, _, _)

\* the generated try_from_bits of a struct, from field i on: every field's
\* extracted bits go through the field type's try_from_bits, `?` returns the
\* first failure, and the result is the argument, stored as it is
struct_try_from_bits(t, bits, i) ==
    IF i > Len(t.fields) THEN Some([storage |-> bits])
    ELSE LET f == t.fields[i]
             field_bits ==
                 Trunc(Trunc(extract_bits(bits, FieldOffset(t, i), FieldLen(t, i)),
                             StorageBits(t)), StorageBits(f))
             r == try_from_bits(f, field_bits)
         IN  IF r.tag = "Some" THEN struct_try_from_bits(t, bits, i + 1) ELSE r

try_from_bits(t, bits) ==
    CASE t.kind = "bool" -> bool_try_from_bits(bits)
      [] t.kind = "U" -> U_try_from_bits(bits)
      [] t.kind = "I" -> I_try_from_bits(bits)
      [] t.kind = "B" -> B_try_from_bits(t.bits, bits)
      [] t.kind = "SB" -> SB_try_from_bits(t.bits, bits)
      [] t.kind = "enum" -> enum_try_from_bits(t, bits)
      [] t.kind = "struct" -> struct_try_from_bits(t, bits, 1)

\* from_bits: Some(v) when it returns v, Panic when it panics
from_bits(t, bits) ==
    CASE t.kind = "bool" -> bool_from_bits(bits)
      [] t.kind = "U" -> U_from_bits(bits)
      [] t.kind = "I" -> I_from_bits(bits)
      [] t.kind = "B" -> B_from_bits(t.bits, bits)
      [] t.kind = "SB" -> SB_from_bits(t.bits, bits)
      [] t.kind \in {"enum", "struct"} -> unwrap(try_from_bits(t, bits))

to_bits(t, x) ==
    CASE t.kind = "bool" -> bool_to_bits(x)
      [] t.kind = "U" -> U_to_bits(x)
      [] t.kind = "I" -> I_to_bits(x)
      [] t.kind = "B" -> B_to_bits(t.bits, x)
      [] t.kind = "SB" -> SB_to_bits(t.bits, x)
      [] t.kind = "enum" -> enum_to_bits(t, x)
      [] t.kind = "struct" -> x.storage

\* const_eq(a, b) of a generated type, which the derived equality agrees with:
\* the comparison of the storage
const_eq(t, a, b) == to_bits(t, a) = to_bits(t, b)

\* the getter of field i of struct value x
field_access(t, x, i) ==
    LET f == t.fields[i]
    IN  from_bits(f, Trunc(Trunc(extract_bits(x.storage, FieldOffset(t, i),
                                              FieldLen(t, i)),
                                 StorageBits(t)), StorageBits(f)))

\* the <field i>_noshift() getter of struct value x
field_access_noshift(t, x, i) ==
    Trunc(extract_bits_noshift(x.storage, FieldOffset(t, i), FieldLen(t, i)),
          StorageBits(t))

\* set_<field i>(new_value) on struct value x: the new struct value
field_set(t, x, i, new_value) ==
    [storage |->
        Trunc(modify_bits(x.storage, FieldOffset(t, i), FieldLen(t, i),
                          to_bits(t.fields[i], new_value)),
              StorageBits(t))]

\* a path names a field at some depth: <<i>> is field i, <<i, j>> is field j
\* of the struct in field i, ...
RECURSIVE TypeAt(_, _)
TypeAt(t, path) ==
    IF path = <<>> THEN t ELSE TypeAt(t.fields[Head(path)], Tail(path))

RECURSIVE Paths(_)
Paths(t) ==
    IF t.kind # "struct" THEN {<<>>}
    ELSE {<<>>} \cup UNION {{<<i>> \o p : p \in Paths(t.fields[i])} :
                            i \in 1 .. Len(t.fields)}

FieldPaths(t) == Paths(t) \ {<<>>}

\* the chain of getters along a path: x.f1().f2()...; it panics when one
\* of the getters panics
RECURSIVE get_path(_, _, _)
get_path(t, x, path) ==
    IF path = <<>> THEN Some(x)
    ELSE LET r == field_access(t, x, Head(path))
         IN  IF r.tag = "Some"
             THEN get_path(t.fields[Head(path)], r.v, Tail(path))
             ELSE r

-----------------------------------------------------------------------------
(* Mutable windows.  A window is the record of BitsMut: the variant of the  *)
(* storage reference (the width of the referenced root storage) and the     *)
(* start bit index.  The referenced storage itself is passed along.         *)

BitPieceStorageMutRef_get(storage) == storage

\* a faulty set: the value is stored without the cast to the storage's width
BitPieceStorageMutRef_set_untruncated(width, new_value) == new_value

BitPieceStorageMutRef_set(width, new_value) == Trunc(new_value, width)

BitsMut_new(width, start_bit_index) ==
    [width |-> width, start_bit_index |-> start_bit_index]

get_bits(storage, m, rel_bit_index, len) ==
    extract_bits(BitPieceStorageMutRef_get(storage),
                 m.start_bit_index + rel_bit_index, len)

\* the referenced storage after set_bits
set_bits(storage, m, rel_bit_index, len, new_value) ==
    BitPieceStorageMutRef_set(m.width,
        modify_bits(BitPieceStorageMutRef_get(storage),
                    m.start_bit_index + rel_bit_index, len, new_value))

\* a faulty get(): the checked decode, which reports an invalid pattern as
\* None instead of panicking
MutRef_get_checked(t, storage, m) ==
    try_from_bits(t, Trunc(get_bits(storage, m, 0, BITS(t)), StorageBits(t)))

\* get() of the window m of a piece of type t
MutRef_get(t, storage, m) ==
    from_bits(t, Trunc(get_bits(storage, m, 0, BITS(t)), StorageBits(t)))

\* the referenced storage after set(new_value) on the window m
MutRef_set(t, storage, m, new_value) ==
    set_bits(storage, m, 0, BITS(t), to_bits(t, new_value))

\* <field i>_mut() of a struct value of type t: a window on its own storage
field_mut(t, i) == BitsMut_new(StorageBits(t), FieldOffset(t, i))

\* <field i>_mut() of the window m of a struct of type t: the child window
mut_struct_field_mut(m, t, i) ==
    BitsMut_new(m.width, m.start_bit_index + FieldOffset(t, i))

\* the window reached from a root value of type t by <f>_mut() along path
RECURSIVE window_at(_, _, _)
window_at(t, path, n) ==
    IF n = 1 THEN field_mut(t, path[1])
    ELSE mut_struct_field_mut(window_at(t, path, n - 1),
                              TypeAt(t, SubSeq(path, 1, n - 1)), path[n])

-----------------------------------------------------------------------------
(* Fields values and the constants.  The Fields value of a struct is the    *)
(* sequence of the Fields values of its fields; of any other type, the      *)
(* value itself.                                                            *)

\* zeroes(): from_bits of the all-zero storage
zeroes(t) == from_bits(t, {})

RECURSIVE from_fields(_, _)
RECURSIVE struct_from_fields(_, _, _, _)

\* result.set_<field i>(from_fields(fields.<field i>)) for the fields from i
struct_from_fields(t, fields, result, i) ==
    IF i > Len(t.fields) THEN Some(result)
    ELSE LET r == from_fields(t.fields[i], fields[i])
         IN  IF r.tag = "Some"
             THEN struct_from_fields(t, fields, field_set(t, result, i, r.v), i + 1)
             ELSE r

from_fields(t, fields) ==
    IF t.kind # "struct" THEN Some(fields)
    ELSE LET z == zeroes(t)
         IN  IF z.tag = "Some" THEN struct_from_fields(t, fields, z.v, 1) ELSE z

RECURSIVE to_fields(_, _)
RECURSIVE struct_to_fields(_, _, _, _)

\* the field initializers of the Fields struct, in order, from field i
struct_to_fields(t, x, acc, i) ==
    IF i > Len(t.fields) THEN Some(acc)
    ELSE LET g == field_access(t, x, i)
             r == IF g.tag = "Some" THEN to_fields(t.fields[i], g.v) ELSE g
         IN  IF r.tag = "Some"
             THEN struct_to_fields(t, x, Append(acc, r.v), i + 1)
             ELSE r

to_fields(t, x) ==
    IF t.kind # "struct" THEN Some(x) ELSE struct_to_fields(t, x, <<>>, 1)

ConstNames == {"ZEROES", "ONES", "MIN", "MAX"}

\* the constants a type declares in the source: bool.rs declares only ZEROES
\* and ONES, and a struct has a constant when all of its fields have it
RECURSIVE HasConst(_, _)
HasConst(t, c) ==
    CASE t.kind = "bool" -> c \in {"ZEROES", "ONES"}
      [] t.kind = "struct" -> \A i \in 1 .. Len(t.fields) : HasConst(t.fields[i], c)
      [] OTHER -> TRUE

\* <T as BitPiece>::ZEROES / ONES / MIN / MAX, as an outcome (a constant
\* whose evaluation panics does not exist)
RECURSIVE Const(_, _)
RECURSIVE struct_const_fields(_, _, _, _)
struct_const_fields(t, c, acc, i) ==
    IF i > Len(t.fields) THEN Some(acc)
    ELSE LET k == Const(t.fields[i], c)
             r == IF k.tag = "Some" THEN to_fields(t.fields[i], k.v) ELSE k
         IN  IF r.tag = "Some"
             THEN struct_const_fields(t, c, Append(acc, r.v), i + 1)
             ELSE r

Const(t, c) ==
    LET W == StorageBits(t) IN
    CASE t.kind = "bool" -> Some(c = "ONES")
      [] t.kind = "U" -> Some(IF c \in {"ONES", "MAX"} THEN 0 .. (W - 1) ELSE {})
      [] t.kind = "I" ->
            Some(CASE c = "ZEROES" -> {}
                   [] c = "ONES" -> 0 .. (W - 1)
                   [] c = "MIN" -> {W - 1}
                   [] c = "MAX" -> 0 .. (W - 2))
      [] t.kind = "B" -> Some(IF c \in {"ONES", "MAX"} THEN B_ONES(t.bits) ELSE {})
      [] t.kind = "SB" ->
            (CASE c = "ZEROES" -> Some({})
               [] c = "ONES" -> SB_from_bits(t.bits, SB_STORAGE_MASK(t.bits))
               [] c = "MIN" -> Some(SB_MIN(t.bits))
               [] c = "MAX" -> Some(SB_MAX(t.bits)))
      [] t.kind = "enum" ->
            (IF c \in {"ZEROES", "MIN"}
             THEN from_bits(t, Trunc(FromNat(const_array_min_u64(t.variants)), W))
             ELSE from_bits(t, Trunc(FromNat(const_array_max_u64(t.variants)), W)))
      [] t.kind = "struct" ->
            (LET f == struct_const_fields(t, c, <<>>, 1)
             IN  IF f.tag = "Some" THEN from_fields(t, f.v) ELSE f)

-----------------------------------------------------------------------------
(* The piece types of the model.                                            *)

\* the widths the source defines B and SB types for: 1..64
MaxBitLen == 64

\* a sparse enum (derived length 2: the patterns 1 and 3 are undeclared), an
\* exhaustive one, and one without a zero variant
SparseEnum == EnumTy(0, <<0, 2>>)
ExhaustiveEnum == EnumTy(0, <<0, 1, 2, 3>>)
NoZeroVariant == EnumTy(0, <<1, 2>>)
\* an enum whose variants are not declared in the order of their discriminants
UnorderedEnum == EnumTy(0, <<2, 3, 1>>)

\* { a: B3, b: B5 }: 8 bits, the storage is covered by the fields
BasicStruct == StructTy(<<BTy(3), BTy(5)>>)
\* { x: B1, e: SparseEnum }: 3 bits in a u8
Inner == StructTy(<<BTy(1), SparseEnum>>)
\* { inner: Inner, s: SB1 }: 4 bits in a u8
Mid == StructTy(<<Inner, SBTy(1)>>)
\* { mid: Mid, tail: SparseEnum, flag: bool }: 7 bits in a u8, a sparse enum
\* two levels deep and one next to the nested struct
Deep == StructTy(<<Mid, SparseEnum, BoolTy>>)

\* { e: NoZeroVariant, x: B2 }: 4 bits in a u8; the all-zero storage is not a
\* value of the type
NoZeroContainer == StructTy(<<NoZeroVariant, BTy(2)>>)

PrimTypes ==
    {BoolTy} \cup {UTy(n) : n \in {8, 16, 32, 64}} \cup {ITy(n) : n \in {8, 16, 32, 64}}
    \cup {BTy(n) : n \in 1 .. MaxBitLen} \cup {SBTy(n) : n \in 1 .. MaxBitLen}
EnumTypes == {SparseEnum, ExhaustiveEnum, NoZeroVariant, UnorderedEnum}
StructTypes == {BasicStruct, Inner, Mid, Deep, NoZeroContainer}
Types == PrimTypes \cup EnumTypes \cup StructTypes

-----------------------------------------------------------------------------
(* The inputs of the operations.                                            *)

\* the bit positions that vary in the raw inputs of a type: bit 0, the top
\* bit of the storage and the bits around the type's bit length; every bit
\* of a field and the first unused bit of a struct
ProbeBits(t) ==
    LET W == StorageBits(t)
        n == BITS(t)
    IN  IF t.kind = "struct"
        THEN {i \in 0 .. (W - 1) : i <= n}
        ELSE {i \in 0 .. (W - 1) :
                 i = 0 \/ i = W - 1 \/ (n - ProbeSpan <= i /\ i <= n + ProbeSpan - 1)}

\* the runs of one-bits from a bit near the width boundary up to the top of
\* the storage: the high bits of a negative value of the signed storage type
HighFills(t) ==
    LET W == StorageBits(t)
        n == BITS(t)
    IN  IF t.kind = "struct" THEN {{}}
        ELSE {{}} \cup {k .. (W - 1) :
                           k \in {j \in 0 .. (W - 1) :
                                     n - ProbeSpan <= j /\ j <= n + ProbeSpan - 1}}

\* raw values of the storage type of t
RawInputsOf(t) == {low \cup fill : low \in SUBSET ProbeBits(t), fill \in HighFills(t)}
RawTable == [t \in Types |-> RawInputsOf(t)]
RawInputs(t) == RawTable[t]

\* values of type t a program obtains from from_bits
ValuesTable ==
    [t \in Types |->
        {from_bits(t, r).v : r \in {q \in RawInputs(t) : from_bits(t, q).tag = "Some"}}]
ValuesOf(t) == ValuesTable[t]

\* Fields values of type t, built from such values
RECURSIVE FieldsOf(_)
RECURSIVE FieldsProduct(_, _)
FieldsProduct(t, n) ==
    IF n = 0 THEN {<<>>}
    ELSE {Append(p, f) : p \in FieldsProduct(t, n - 1), f \in FieldsOf(t.fields[n])}
FieldsOf(t) ==
    IF t.kind # "struct" THEN ValuesOf(t) ELSE FieldsProduct(t, Len(t.fields))
FieldsTable == [t \in Types |-> FieldsOf(t)]

PathsTable == [t \in Types |-> FieldPaths(t)]

-----------------------------------------------------------------------------
(* The state machine: a program that works with one piece type.  It first   *)
(* constructs a value of the type, then mutates it in place and reads it.   *)
(* A construction that fails leaves no value (val.tag is "None" after a     *)
(* checked one and "Panic" after an unchecked one) and ends the program.    *)

NoArg == {}

Init ==
    /\ ty \in Types
    /\ op = "start"
    /\ arg = NoArg
    /\ val = None
    /\ out = None

\* T::from_bits(raw)
FromBits(raw) ==
    /\ op = "start"
    /\ op' = "from_bits"
    /\ arg' = raw
    /\ val' = from_bits(ty, raw)
    /\ out' = None
    /\ UNCHANGED ty

\* T::try_from_bits(raw)
TryFromBits(raw) ==
    /\ op = "start"
    /\ op' = "try_from_bits"
    /\ arg' = raw
    /\ val' = try_from_bits(ty, raw)
    /\ out' = None
    /\ UNCHANGED ty

\* Bn::new(value), SBn::new(value)
New(value) ==
    /\ op = "start"
    /\ ty.kind \in {"B", "SB"}
    /\ op' = "new"
    /\ arg' = value
    /\ val' = IF ty.kind = "B" THEN B_new(ty.bits, value) ELSE SB_new(ty.bits, value)
    /\ out' = None
    /\ UNCHANGED ty

\* Bn::try_new(value), SBn::try_new(value)
TryNew(value) ==
    /\ op = "start"
    /\ ty.kind \in {"B", "SB"}
    /\ op' = "try_new"
    /\ arg' = value
    /\ val' = IF ty.kind = "B" THEN B_try_new(ty.bits, value)
              ELSE SB_try_new(ty.bits, value)
    /\ out' = None
    /\ UNCHANGED ty

\* T::from_fields(fields)
FromFields(fields) ==
    /\ op = "start"
    /\ op' = "from_fields"
    /\ arg' = fields
    /\ val' = from_fields(ty, fields)
    /\ out' = None
    /\ UNCHANGED ty

\* T::ZEROES, T::ONES, T::MIN, T::MAX
Constant(c) ==
    /\ op = "start"
    /\ HasConst(ty, c)
    /\ op' = "const"
    /\ arg' = c
    /\ val' = Const(ty, c)
    /\ out' = None
    /\ UNCHANGED ty

\* value.set_<field i>(new_value)
SetField(i, new_value) ==
    /\ ty.kind = "struct"
    /\ val.tag = "Some"
    /\ op' = "set_field"
    /\ arg' = [path |-> <<i>>, value |-> new_value]
    /\ val' = Some(field_set(ty, val.v, i, new_value))
    /\ out' = None
    /\ UNCHANGED ty

\* value.<f1>_mut().<f2>_mut()...set(new_value): a set through the window of
\* the field at path
MutSet(path, new_value) ==
    /\ ty.kind = "struct"
    /\ val.tag = "Some"
    /\ op' = "mut_set"
    /\ arg' = [path |-> path, value |-> new_value]
    /\ val' = Some([storage |->
                      MutRef_set(TypeAt(ty, path), val.v.storage,
                                 window_at(ty, path, Len(path)), new_value)])
    /\ out' = None
    /\ UNCHANGED ty

\* value.<f1>_mut().<f2>_mut()...get(): a get through the window of the
\* field at path
MutGet(path) ==
    /\ ty.kind = "struct"
    /\ val.tag = "Some"
    /\ op' = "mut_get"
    /\ arg' = path
    /\ out' = MutRef_get(TypeAt(ty, path), val.v.storage,
                         window_at(ty, path, Len(path)))
    /\ UNCHANGED <<ty, val>>

\* value.to_bits()
ToBits ==
    /\ val.tag = "Some"
    /\ op' = "to_bits"
    /\ arg' = NoArg
    /\ out' = Some(to_bits(ty, val.v))
    /\ UNCHANGED <<ty, val>>

\* value.<f1>().<f2>()...: the getters along path
Get(path) ==
    /\ ty.kind = "struct"
    /\ val.tag = "Some"
    /\ op' = "get"
    /\ arg' = path
    /\ out' = get_path(ty, val.v, path)
    /\ UNCHANGED <<ty, val>>

\* a program constructs one value, then mutates and reads it
Next ==
    \/ op = "start" /\ \E raw \in RawInputs(ty) : FromBits(raw)
    \/ op = "start" /\ \E raw \in RawInputs(ty) : TryFromBits(raw)
    \/ op = "start" /\ \E value \in RawInputs(ty) : New(value)
    \/ op = "start" /\ \E value \in RawInputs(ty) : TryNew(value)
    \/ op = "start" /\ \E fields \in FieldsTable[ty] : FromFields(fields)
    \/ op = "start" /\ \E c \in ConstNames : Constant(c)
    \/ \E p \in {q \in PathsTable[ty] : Len(q) = 1} :
          \E v \in ValuesOf(TypeAt(ty, p)) : SetField(p[1], v)
    \/ \E p \in PathsTable[ty] : \E v \in ValuesOf(TypeAt(ty, p)) : MutSet(p, v)
    \/ ToBits
    \/ \E p \in PathsTable[ty] : Get(p)
    \/ \E p \in PathsTable[ty] : MutGet(p)

Spec == Init /\ [][Next]_vars

-----------------------------------------------------------------------------
(* Declaring a schema: the bit length, the storage type and the layout the  *)
(* macros derive for an enum or a struct, or the rejection of the schema    *)
(* at compile time.                                                         *)

\* the outcome of a declaration that does not compile
SchemaError == [tag |-> "SchemaError", v |-> {}]

\* the bit lengths BitLength<N> implements AssociatedStorage for: 1..64
MaxStorageBitLen == 64

\* the widths BitLength<N> implements ExactAssociatedStorage for
ExactStorageWidths == {8, 16, 32, 64}

\* <BitLength<bit_length> as AssociatedStorage>::Storage: the width of the
\* storage type, or a schema error where no impl exists (the listed lengths
\* start at 1, so exact_associated_storage_bit_length never sees 0)
AssociatedStorage(bit_length) ==
    IF bit_length \in 1 .. MaxStorageBitLen
    THEN (LET w == exact_associated_storage_bit_length(bit_length)
          IN  IF w \in ExactStorageWidths THEN Some(w) ELSE SchemaError)
    ELSE SchemaError

\* #[bitpiece] on an enum with the given discriminants and no explicit length
declare_enum(variants) ==
    LET t == EnumTy(0, variants)
        s == AssociatedStorage(BITS(t))
    IN  IF s.tag = "Some" THEN Some([BITS |-> BITS(t), storage |-> s.v]) ELSE s

\* #[bitpiece(explicit)] on an enum with the given discriminants: the bit
\* length is the explicit one, no assertion compares it with the
\* discriminants, and the declaration compiles when the storage type exists
\* and the four constants evaluate without a panic
declare_enum_explicit(explicit, variants) ==
    LET t == EnumTy(explicit, variants)
        s == AssociatedStorage(explicit)
    IN  IF s.tag # "Some" THEN s
        ELSE IF \E c \in ConstNames : Const(t, c).tag # "Some" THEN SchemaError
        ELSE Some([BITS |-> BITS(t), storage |-> s.v])

\* #[bitpiece] on a struct with the given field types
declare_struct(fields) ==
    IF fields = <<>> THEN SchemaError
    ELSE LET t == StructTy(fields)
             s == AssociatedStorage(BITS(t))
         IN  IF s.tag = "Some"
             THEN Some([BITS |-> BITS(t), storage |-> s.v,
                        offsets |-> [i \in 1 .. Len(fields) |-> FieldOffset(t, i)],
                        lens |-> [i \in 1 .. Len(fields) |-> FieldLen(t, i)]])
             ELSE s

\* the schemas tried: enums of up to MaxVariants distinct discriminants, and
\* structs of up to MaxFields fields
MaxVariants == 2
MaxFields == 3
Discriminants == {0, 1, 2, 3, 4, 7, 8, 120, 127, 128, 255, 256, 50000, 65535, 65536}
FieldTypes == {BoolTy, BTy(3), BTy(5), SBTy(1), SparseEnum, Inner, UTy(32), BTy(64)}
\* the explicit bit lengths tried
ExplicitLens == {1, 2, 3, 8, 9, 16, 17, 64, 65}

RECURSIVE SeqsUpTo(_, _)
SeqsUpTo(S, n) ==
    IF n = 0 THEN {<<>>}
    ELSE LET shorter == SeqsUpTo(S, n - 1)
         IN  shorter \cup {Append(q, x) : q \in {r \in shorter : Len(r) = n - 1}, x \in S}

Distinct(q) == \A i, j \in 1 .. Len(q) : i # j => q[i] # q[j]
VariantLists == {q \in SeqsUpTo(Discriminants, MaxVariants) : q # <<>> /\ Distinct(q)}
FieldLists == SeqsUpTo(FieldTypes, MaxFields)
TotalBits == 0 .. (MaxStorageBitLen + ProbeSpan)

Undeclared == Ty("none", 0, <<>>, <<>>)

SchemaInit ==
    /\ ty = Undeclared
    /\ op = "start"
    /\ arg = NoArg
    /\ val = None
    /\ out = None

\* the storage type for a piece of total_bits bits
SelectStorage(total_bits) ==
    /\ op = "start"
    /\ op' = "select_storage"
    /\ arg' = total_bits
    /\ out' = AssociatedStorage(total_bits)
    /\ UNCHANGED <<ty, val>>

DeclareEnum(variants) ==
    /\ op = "start"
    /\ op' = "declare_enum"
    /\ arg' = variants
    /\ ty' = EnumTy(0, variants)
    /\ out' = declare_enum(variants)
    /\ UNCHANGED val

DeclareEnumExplicit(explicit, variants) ==
    /\ op = "start"
    /\ op' = "declare_enum_explicit"
    /\ arg' = variants
    /\ ty' = EnumTy(explicit, variants)
    /\ out' = declare_enum_explicit(explicit, variants)
    /\ UNCHANGED val

DeclareStruct(fields) ==
    /\ op = "start"
    /\ op' = "declare_struct"
    /\ arg' = fields
    /\ ty' = StructTy(fields)
    /\ out' = declare_struct(fields)
    /\ UNCHANGED val

SchemaNext ==
    \/ op = "start" /\ \E total_bits \in TotalBits : SelectStorage(total_bits)
    \/ op = "start" /\ \E variants \in VariantLists : DeclareEnum(variants)
    \/ op = "start" /\ \E explicit \in ExplicitLens : \E variants \in VariantLists :
          DeclareEnumExplicit(explicit, variants)
    \/ op = "start" /\ \E fields \in FieldLists : DeclareStruct(fields)

SchemaSpec == SchemaInit /\ [][SchemaNext]_vars

-----------------------------------------------------------------------------
(* The bit codec on its own: extract_bits and modify_bits applied to u64    *)
(* values, bit ranges and new values around the storage width boundaries.   *)

\* the bit positions within ProbeSpan of a boundary of a storage width
Boundaries == {0, 8, 16, 32, 64}
NearBoundary(p) == \E b \in Boundaries : p - b <= ProbeSpan /\ b - p <= ProbeSpan
Offsets == {p \in 0 .. 63 : NearBoundary(p)}
Lens == {p \in 1 .. 64 : NearBoundary(p)}
Ranges == {r \in Offsets \X Lens : r[1] + r[2] <= 64}

\* u64 values with bits on both sides of the ends of the range
RangeValues(offset, len) ==
    SUBSET {i \in 0 .. 63 : i \in {offset - 1, offset, offset + len - 1, offset + len}}

\* u64 new values with bits below and at or above position len
NewValues(len) == SUBSET {i \in 0 .. 63 : i \in {0, len - 1, len, 63}}

CodecInit ==
    /\ ty = UTy(64)
    /\ op = "start"
    /\ arg = NoArg
    /\ val = None
    /\ out = None

\* extract_bits(value, offset, len)
ExtractBits(value, offset, len) ==
    /\ op = "start"
    /\ op' = "extract_bits"
    /\ arg' = [value |-> value, offset |-> offset, len |-> len]
    /\ out' = Some(extract_bits(value, offset, len))
    /\ UNCHANGED <<ty, val>>

\* modify_bits(value, offset, len, new_value)
ModifyBits(value, offset, len, new_value) ==
    /\ op = "start"
    /\ op' = "modify_bits"
    /\ arg' = [value |-> value, offset |-> offset, len |-> len,
               new_value |-> new_value]
    /\ out' = Some(modify_bits(value, offset, len, new_value))
    /\ UNCHANGED <<ty, val>>

\* extract_bits of the value modify_bits returned, over the same range
ExtractModified ==
    /\ op = "modify_bits"
    /\ op' = "extract_modified"
    /\ val' = out
    /\ out' = Some(extract_bits(out.v, arg.offset, arg.len))
    /\ UNCHANGED <<ty, arg>>

\* extract_bits_noshift(value, offset, len)
ExtractBitsNoshift(value, offset, len) ==
    /\ op = "start"
    /\ op' = "extract_bits_noshift"
    /\ arg' = [value |-> value, offset |-> offset, len |-> len]
    /\ out' = Some(extract_bits_noshift(value, offset, len))
    /\ UNCHANGED <<ty, val>>

\* x.<field i>_noshift() of the value x of struct type t with the given storage
FieldNoshift(t, storage, i) ==
    /\ op = "start"
    /\ op' = "field_noshift"
    /\ arg' = [ty |-> t, storage |-> storage, i |-> i]
    /\ out' = Some(field_access_noshift(t, [storage |-> storage], i))
    /\ UNCHANGED <<ty, val>>

CodecNext ==
    \/ op = "start" /\ \E r \in Ranges : \E value \in RangeValues(r[1], r[2]) :
          ExtractBits(value, r[1], r[2])
    \/ op = "start" /\ \E r \in Ranges : \E value \in RangeValues(r[1], r[2]) :
          \E new_value \in NewValues(r[2]) : ModifyBits(value, r[1], r[2], new_value)
    \/ op = "start" /\ \E r \in Ranges : \E value \in RangeValues(r[1], r[2]) :
          ExtractBitsNoshift(value, r[1], r[2])
    \/ op = "start" /\ \E t \in StructTypes : \E x \in ValuesOf(t) :
          \E i \in 1 .. Len(t.fields) : FieldNoshift(t, x.storage, i)
    \/ ExtractModified

CodecSpec == CodecInit /\ [][CodecNext]_vars

-----------------------------------------------------------------------------
(* Notions the properties are stated with.                                  *)

\* the offset of the field at path from bit 0 of the root storage
RECURSIVE AbsOffset(_, _)
AbsOffset(t, path) ==
    IF path = <<>> THEN 0
    ELSE FieldOffset(t, Head(path)) + AbsOffset(t.fields[Head(path)], Tail(path))

\* the bits of raw in [offset, offset + len), moved down to bit 0
BitsAt(raw, offset, len) ==
    {i - offset : i \in {j \in raw : offset <= j /\ j < offset + len}}

\* the paths of the enum fields of t, at every depth
EnumPaths(t) == {p \in PathsTable[t] : TypeAt(t, p).kind = "enum"}

\* the bits of raw that land on the enum field at path p of t are one of its
\* declared discriminants
DeclaredAt(t, raw, p) ==
    LET e == TypeAt(t, p)
    IN  \E k \in 1 .. Len(e.variants) :
            BitsAt(raw, AbsOffset(t, p), BITS(e)) = FromNat(e.variants[k])

\* the number a bit pattern stands for: unsigned, and W-bit two's complement
\* (for the widths whose numbers the checker's integers hold)
RECURSIVE ToNat(_)
ToNat(v) == IF v = {} THEN 0 ELSE LET m == SetMax(v) IN 2 ^ m + ToNat(v \ {m})
ToInt(v, W) == IF (W - 1) \in v THEN ToNat(v) - 2 ^ W ELSE ToNat(v)
NumericWidth == 16

SameOutcome(a, b) == a.tag = b.tag /\ (a.tag = "Some" => a.v = b.v)

-----------------------------------------------------------------------------
(* C1 .. C10                                                                *)

\* C1: setting a field of a struct piece, with set_<field> or through a
\* window at any nesting depth, leaves every bit of the root storage outside
\* [offset, offset + len) of that field unchanged.
C1_SetLeavesOtherBits ==
    [][op' \in {"set_field", "mut_set"} =>
          LET offset == AbsOffset(ty, arg'.path)
              len == BITS(TypeAt(ty, arg'.path))
          IN  \A i \in 0 .. (StorageBits(ty) - 1) :
                  (i < offset \/ i >= offset + len) =>
                      ((i \in val'.v.storage) <=> (i \in val.v.storage))]_vars

\* C2: try_from_bits(raw) of a struct that embeds a sparse enum at any depth
\* is None whenever the bits of raw on an embedded enum field are not a
\* declared discriminant, and Some whenever they all are.
C2_NestedValidity ==
    (op = "try_from_bits" /\ ty.kind = "struct") =>
        /\ val.tag \in {"Some", "None"}
        /\ val.tag = "None" <=> \E p \in EnumPaths(ty) : ~DeclaredAt(ty, arg, p)

\* a checked construction of Deep fails on the enum two levels down alone
C2_Witness ==
    /\ ty = Deep
    /\ op = "try_from_bits"
    /\ val.tag = "None"
    /\ ~DeclaredAt(Deep, arg, <<1, 1, 2>>)
    /\ DeclaredAt(Deep, arg, <<2>>)

\* C3: for every value v of every piece kind, from_bits(to_bits(v)) = v and
\* try_from_bits(to_bits(v)) = Some(v).
C3_RoundTrip ==
    val.tag = "Some" =>
        /\ SameOutcome(from_bits(ty, to_bits(ty, val.v)), val)
        /\ SameOutcome(try_from_bits(ty, to_bits(ty, val.v)), val)
\* C4: from_bits(raw) panics exactly when try_from_bits(raw) is None, and
\* otherwise returns the value try_from_bits(raw) holds.
C4_FromBitsAgrees ==
    /\ op = "from_bits" =>
           LET t == try_from_bits(ty, arg)
           IN  /\ (val.tag = "Panic") <=> (t.tag = "None")
               /\ val.tag # "Panic" => SameOutcome(val, t)
    /\ op = "try_from_bits" =>
           LET f == from_bits(ty, arg)
           IN  /\ (val.tag = "None") <=> (f.tag = "Panic")
               /\ val.tag # "None" => SameOutcome(val, f)

\* from_bits of a struct panics on an undeclared pattern of a nested enum
C4_Witness ==
    /\ ty = Mid
    /\ op = "from_bits"
    /\ val.tag = "Panic"
    /\ try_from_bits(ty, arg).tag = "None"

\* C5: the checked constructors try_new and try_from_bits never panic: they
\* return Some or None.
C5_CheckedNeverPanics ==
    op \in {"try_new", "try_from_bits"} => val.tag \in {"Some", "None"}

\* try_new of a signed value out of range returns None
C5_Witness ==
    /\ ty = SBTy(3)
    /\ op = "try_new"
    /\ val.tag = "None"

\* C6: after any sequence of operations that did not panic, every field
\* getter at every depth returns without panicking.
C6_GettersNeverPanic == op = "get" => out.tag # "Panic"

\* C7: SBn::try_from_bits(raw) is None for every raw with a bit at or above
\* n set, when n is less than the storage width.
C7_RejectsBitsAboveLength ==
    (op = "try_from_bits" /\ ty.kind = "SB" /\ ty.bits < StorageBits(ty)
        /\ \E i \in arg : i >= ty.bits)
    => val.tag = "None"

\* C8: for r < 2^w, SBw::from_bits(r) is r - 2^w when bit w-1 of r is set
\* and r otherwise; iN::from_bits reinterprets the raw bits as two's
\* complement.
C8_SignExtension ==
    LET W == StorageBits(ty)
        w == ty.bits
    IN  /\ (op = "from_bits" /\ ty.kind = "SB" /\ arg \subseteq 0 .. (w - 1)) =>
               /\ val.tag = "Some"
               /\ val.v = IF (w - 1) \in arg THEN arg \cup (w .. (W - 1)) ELSE arg
               /\ W <= NumericWidth =>
                      ToInt(val.v, W) =
                          IF (w - 1) \in arg THEN ToNat(arg) - 2 ^ w ELSE ToNat(arg)
        /\ (op = "from_bits" /\ ty.kind = "I") =>
               /\ val.tag = "Some"
               /\ val.v = arg
               /\ W <= NumericWidth =>
                      ToInt(val.v, W) =
                          IF (W - 1) \in arg THEN ToNat(arg) - 2 ^ W ELSE ToNat(arg)

\* SB5::from_bits(r) of an r with bit 4 set is negative
C8_Witness ==
    /\ ty = SBTy(5)
    /\ op = "from_bits"
    /\ arg \subseteq 0 .. 4
    /\ 4 \in arg
    /\ val.tag = "Some"
    /\ 7 \in val.v

\* C9: SBw::try_new(v) is Some(v) exactly when -2^(w-1) <= v <= 2^(w-1) - 1;
\* MIN and MAX are these two ends; SB1 holds only -1 and 0; new panics
\* exactly when try_new is None.
C9_SignedRange ==
    LET W == StorageBits(ty)
        w == ty.bits
        InRange(v) == \A i \in (w - 1) .. (W - 1) : (i \in v) <=> ((W - 1) \in v)
    IN  ty.kind = "SB" =>
            /\ op \in {"try_new", "new"} =>
                   (W <= NumericWidth =>
                       (InRange(arg) <=>
                            /\ -(2 ^ (w - 1)) <= ToInt(arg, W)
                            /\ ToInt(arg, W) <= 2 ^ (w - 1) - 1))
            /\ op = "try_new" =>
                   /\ (val.tag = "Some") <=> InRange(arg)
                   /\ val.tag = "Some" => val.v = arg
            /\ op = "new" =>
                   /\ (val.tag = "Panic") <=> (SB_try_new(w, arg).tag = "None")
                   /\ (val.tag = "Panic") <=> ~InRange(arg)
                   /\ val.tag # "Panic" => (val.tag = "Some" /\ val.v = arg)
            /\ (op = "const" /\ arg = "MIN") =>
                   (val.tag = "Some" /\ val.v = (w - 1) .. (W - 1))
            /\ (op = "const" /\ arg = "MAX") =>
                   (val.tag = "Some" /\ val.v = 0 .. (w - 2))
            /\ (w = 1 /\ val.tag = "Some") => val.v \in {{}, 0 .. (W - 1)}

\* SB3::try_new(-4) is Some(-4)
C9_Witness ==
    /\ ty = SBTy(3)
    /\ op = "try_new"
    /\ arg = 2 .. 7
    /\ val.tag = "Some"

\* C10: Bw::try_new(v) and Bw::try_from_bits(v) are Some(v) exactly when
\* v <= 2^w - 1; B8, B16, B32 and B64 accept every value of their storage;
\* new and from_bits panic exactly on the values the checked forms reject.
C10_UnsignedRange ==
    LET W == StorageBits(ty)
        w == ty.bits
        fits == arg \subseteq 0 .. (w - 1)
    IN  (ty.kind = "B" /\ op \in {"try_new", "try_from_bits", "new", "from_bits"}) =>
            /\ W <= NumericWidth => (fits <=> ToNat(arg) <= 2 ^ w - 1)
            /\ op \in {"try_new", "try_from_bits"} =>
                   /\ (val.tag = "Some") <=> fits
                   /\ ~fits => val.tag = "None"
                   /\ val.tag = "Some" => val.v = arg
            /\ op \in {"new", "from_bits"} =>
                   /\ (val.tag = "Panic") <=> ~fits
                   /\ fits => (val.tag = "Some" /\ val.v = arg)
            /\ w = W => val.tag = "Some"

\* B5::try_from_bits(0b100000) is None
C10_Witness ==
    /\ ty = BTy(5)
    /\ op = "try_from_bits"
    /\ 5 \in arg
    /\ val.tag = "None"
-----------------------------------------------------------------------------
(* C11 .. C20                                                               *)

CeilLog2(x) == CHOOSE k \in 0 .. 30 : 2 ^ k >= x /\ (k = 0 \/ 2 ^ (k - 1) < x)

\* the largest number of a non-empty sequence of numbers
MaxOf(q) == CHOOSE m \in {q[i] : i \in 1 .. Len(q)} : \A i \in 1 .. Len(q) : q[i] <= m

\* the bit length of a type, from the declared widths alone
RECURSIVE DeclaredBits(_)
RECURSIVE SumDeclaredBits(_, _)
SumDeclaredBits(fields, n) ==
    IF n = 0 THEN 0 ELSE SumDeclaredBits(fields, n - 1) + DeclaredBits(fields[n])
DeclaredBits(t) ==
    CASE t.kind = "bool" -> 1
      [] t.kind \in {"U", "I", "B", "SB"} -> t.bits
      [] t.kind = "enum" -> CeilLog2(MaxOf(t.variants) + 1)
      [] t.kind = "struct" -> SumDeclaredBits(t.fields, Len(t.fields))

\* C12 as stated: without an explicit bit length an enum's BITS is
\* ceil(log2(max discriminant + 1)), and at least 1.
C12_DerivedBitsAtLeastOne ==
    op = "declare_enum" =>
        /\ out.tag = "Some"
        /\ out.v.BITS = (IF CeilLog2(MaxOf(arg) + 1) < 1 THEN 1
                         ELSE CeilLog2(MaxOf(arg) + 1))

\* C12 amended: without an explicit bit length an enum whose largest
\* discriminant is at least 1 has BITS = ceil(log2(max discriminant + 1)); an
\* enum whose only discriminant is 0 derives 0 bits and is rejected, no
\* minimum of 1 is applied.
C12_DerivedBits ==
    op = "declare_enum" =>
        IF MaxOf(arg) = 0 THEN out.tag = "SchemaError"
        ELSE /\ out.tag = "Some"
             /\ out.v.BITS = CeilLog2(MaxOf(arg) + 1)
             /\ out.v.BITS >= 1

\* an enum whose largest discriminant is 120 has 7 bits
C12_Witness ==
    /\ op = "declare_enum"
    /\ MaxOf(arg) = 120
    /\ out.tag = "Some"
    /\ out.v.BITS = 7

\* C13: for total_bits in 1..64 the storage width is the smallest of 8, 16,
\* 32, 64 that is >= total_bits; 0 and total_bits > 64 are rejected as a
\* schema error.
C13_StorageWidth ==
    op = "select_storage" =>
        IF arg \in 1 .. 64
        THEN /\ out.tag = "Some"
             /\ out.v \in {8, 16, 32, 64}
             /\ out.v >= arg
             /\ \A w \in {8, 16, 32, 64} : w >= arg => out.v <= w
        ELSE out.tag = "SchemaError"

\* 9 bits take a 16-bit storage
C13_Witness ==
    /\ op = "select_storage"
    /\ arg = 9
    /\ out.tag = "Some"
    /\ out.v = 16

\* C14: in a struct the first field is at offset 0, each later field at the
\* previous field's offset plus the previous field's length, each field's
\* length is its type's BITS, and the struct's BITS is the sum of the
\* lengths.
C14_Layout ==
    (op = "declare_struct" /\ out.tag = "Some") =>
        LET n == Len(arg)
        IN  /\ out.v.offsets[1] = 0
            /\ \A i \in 2 .. n :
                   out.v.offsets[i] = out.v.offsets[i - 1] + out.v.lens[i - 1]
            /\ \A i \in 1 .. n : out.v.lens[i] = DeclaredBits(arg[i])
            /\ out.v.BITS = out.v.offsets[n] + out.v.lens[n]
            /\ out.v.BITS = SumDeclaredBits(arg, n)

\* { B3, Inner, bool }: offsets 0, 3, 6 and 7 bits
C14_Witness ==
    /\ op = "declare_struct"
    /\ arg = <<BTy(3), Inner, BoolTy>>
    /\ out.tag = "Some"
    /\ out.v.offsets = <<0, 3, 6>>
    /\ out.v.BITS = 7
\* the bits of a new value that fit in len bits, moved up to offset
PlacedAt(new_value, offset, len) == {i + offset : i \in {j \in new_value : j < len}}

\* the bit positions of the range [offset, offset + len)
RangeBits(offset, len) == {i \in 0 .. 63 : offset <= i /\ i < offset + len}

\* C15: extract_bits(value, offset, len) = (value >> offset) & (2^len - 1)
\* for len in 1..64 and offset + len <= 64; the mask of 64 bits is all ones,
\* so extract_bits(value, 0, 64) = value.
C15_ExtractBits ==
    op = "extract_bits" =>
        /\ out.tag = "Some"
        /\ out.v = BitsAt(arg.value, arg.offset, arg.len)
        /\ (arg.offset = 0 /\ arg.len = 64) => out.v = arg.value
        /\ (arg.value \subseteq 0 .. (NumericWidth - 1) /\ arg.offset <= NumericWidth
                /\ arg.len <= NumericWidth) =>
               ToNat(out.v) = (ToNat(arg.value) \div 2 ^ arg.offset) % 2 ^ arg.len

\* the whole of a u64 with its top bit set is extracted unchanged
C15_Witness ==
    /\ op = "extract_bits"
    /\ arg.offset = 0
    /\ arg.len = 64
    /\ 63 \in arg.value
    /\ out.v = arg.value

\* C16: modify_bits(value, offset, len, new_raw) =
\* (value & ~(mask(len) << offset)) | ((new_raw & mask(len)) << offset), also
\* for a new_raw with bits at or above position len.
C16_ModifyBitsMasksNewValue ==
    op = "modify_bits" =>
        /\ out.tag = "Some"
        /\ out.v = (arg.value \ RangeBits(arg.offset, arg.len))
                       \cup PlacedAt(arg.new_value, arg.offset, arg.len)

\* C17: extract_bits(modify_bits(value, o, l, x), o, l) = x & mask(l) for
\* l >= 1 and o + l <= 64.
C17_ExtractAfterModify ==
    op = "extract_modified" =>
        /\ out.tag = "Some"
        /\ out.v = {i \in arg.new_value : i < arg.len}

\* a new value with a bit above the range, written over set bits, away
\* from offset 0
C17_Witness ==
    /\ op = "extract_modified"
    /\ arg.offset > 0
    /\ \E i \in arg.new_value : i >= arg.len
    /\ \E i \in arg.value : arg.offset <= i /\ i < arg.offset + arg.len
    /\ out.v = {i \in arg.new_value : i < arg.len}
\* C18: for bool, to_bits(false) = 0, to_bits(true) = 1, from_bits(raw) is
\* raw != 0 for every u8 raw, and try_from_bits(raw) is always Some.
C18_BoolTruthy ==
    ty = BoolTy =>
        /\ op \in {"from_bits", "try_from_bits"} =>
               /\ val.tag = "Some"
               /\ val.v = (ToNat(arg) # 0)
        /\ (op = "to_bits" /\ val.tag = "Some") =>
               /\ out.tag = "Some"
               /\ ToNat(out.v) = (IF val.v THEN 1 ELSE 0)

\* try_from_bits(0b10) is Some(true)
C18_Witness ==
    /\ ty = BoolTy
    /\ op = "try_from_bits"
    /\ 1 \in arg
    /\ 0 \notin arg
    /\ val.tag = "Some"
    /\ val.v = TRUE
\* C19: for every struct type and every Fields value f of it,
\* to_fields(from_fields(f)) = f.
C19_FieldsRoundTrip ==
    (ty.kind = "struct" /\ op = "from_fields") =>
        /\ val.tag = "Some"
        /\ SameOutcome(to_fields(ty, val.v), Some(arg))

\* C20: for every piece value p, from_fields(to_fields(p)) equals p under
\* the type's equality (the comparison of to_bits).
C20_ValueRoundTrip ==
    val.tag = "Some" =>
        LET f == to_fields(ty, val.v)
            p == IF f.tag = "Some" THEN from_fields(ty, f.v) ELSE f
        IN  /\ p.tag = "Some"
            /\ to_bits(ty, p.v) = to_bits(ty, val.v)
-----------------------------------------------------------------------------
(* A window of its own: a program creates a mutable reference to a piece of *)
(* type ty at a start bit index over a storage integer it owns, with        *)
(* MutRef::new(BitPieceStorageMutRef::Un(&mut storage), start_bit_index),   *)
(* then reads and writes through it.  Here val holds the window and the     *)
(* referenced storage (and what the storage held when the window was       *)
(* created), arg the value of the last set, out the last get.               *)

\* the variants of BitPieceStorageMutRef: the widths of the referenced storage
StorageRefWidths == {8, 16, 32, 64}

\* how far past the end of the referenced storage a window may reach
MaxOverhang == 1

\* the piece types windows are created for
WindowTypes ==
    {BoolTy, UTy(8), UTy(16), ITy(8), BTy(1), BTy(3), BTy(8), BTy(13),
     SBTy(1), SBTy(3), SBTy(8), SBTy(13)} \cup EnumTypes \cup {Inner, Mid}

\* the start bit indexes of the windows of a piece of type t over a storage
\* of the given width: 0, and those that put the end of the piece at the end
\* of the storage or up to MaxOverhang bits past it (up to bit 64 and beyond
\* for a short piece over a u64)
WindowStarts(t, width) ==
    {k \in 0 .. (63 + MaxOverhang) :
        \/ k = 0
        \/ (width - BITS(t) <= k /\ k <= width - BITS(t) + MaxOverhang)}

\* contents of the referenced storage: a raw value of t at the start bit
\* index, over a background of zeroes or of ones
WindowStorages(t, width, k) ==
    {Trunc(Shl(r, k, 64) \cup bg, width) :
        r \in RawInputs(t),
        bg \in {{}, (0 .. (width - 1)) \ (k .. (k + BITS(t) - 1))}}

\* <field i>() of the window m of a struct of type t
mut_struct_field_access(t, storage, m, i) ==
    from_bits(t.fields[i],
              Trunc(get_bits(storage, m, FieldOffset(t, i), FieldLen(t, i)),
                    StorageBits(t.fields[i])))

\* `value >> offset` and `... << offset` on a u64 with offset >= 64 overflow:
\* the build with overflow checks panics, the build without them shifts by
\* offset modulo 64
ShiftOverflows(offset) == offset >= 64
WrappedShift(offset) == offset % 64

WindowInit ==
    /\ ty \in WindowTypes
    /\ op = "start"
    /\ arg = NoArg
    /\ val = None
    /\ out = None

\* MutRef::new(BitPieceStorageMutRef::U<width>(&mut storage), start_bit_index)
WindowNew(width, start_bit_index, storage) ==
    /\ op = "start"
    /\ op' = "new"
    /\ val' = Some([m |-> BitsMut_new(width, start_bit_index), storage |-> storage,
                    initial |-> storage])
    /\ UNCHANGED <<ty, arg, out>>

\* mut_ref.get()
WindowGet ==
    /\ op \in {"new", "set"}
    /\ val.tag = "Some"
    /\ op' = IF op = "new" THEN "get" ELSE "set_get"
    /\ \/ ShiftOverflows(val.v.m.start_bit_index) /\ out' = Panic
       \/ out' = MutRef_get(ty, val.v.storage,
                            BitsMut_new(val.v.m.width,
                                        WrappedShift(val.v.m.start_bit_index)))
    /\ UNCHANGED <<ty, arg, val>>

\* mut_ref.set(new_value)
WindowSet(new_value) ==
    /\ op = "new"
    /\ op' = "set"
    /\ arg' = new_value
    /\ \/ ShiftOverflows(val.v.m.start_bit_index) /\ val' = Panic
       \/ val' = Some([val.v EXCEPT
                         !.storage =
                             MutRef_set(ty, val.v.storage,
                                        BitsMut_new(val.v.m.width,
                                                    WrappedShift(val.v.m.start_bit_index)),
                                        new_value)])
    /\ UNCHANGED <<ty, out>>

\* mut_ref.<field i>() of a window of a struct
WindowField(i) ==
    /\ op = "new"
    /\ ty.kind = "struct"
    /\ op' = "field"
    /\ arg' = i
    /\ LET offset == val.v.m.start_bit_index + FieldOffset(ty, i)
       IN  \/ ShiftOverflows(offset) /\ out' = Panic
           \/ out' = mut_struct_field_access(ty, val.v.storage,
                         BitsMut_new(val.v.m.width,
                                     WrappedShift(offset) - FieldOffset(ty, i)), i)
    /\ UNCHANGED <<ty, val>>

WindowNext ==
    \/ op = "start" /\ \E width \in StorageRefWidths :
          \E k \in WindowStarts(ty, width) :
              \E storage \in WindowStorages(ty, width, k) : WindowNew(width, k, storage)
    \/ WindowGet
    \/ op = "new" /\ \E v \in ValuesOf(ty) : WindowSet(v)
    \/ op = "new" /\ ty.kind = "struct" /\ \E i \in 1 .. Len(ty.fields) : WindowField(i)

WindowSpec == WindowInit /\ [][WindowNext]_vars

-----------------------------------------------------------------------------
(* C21 .. C30                                                               *)

\* the bits a window of a piece of type t at start bit index k reads from
\* the referenced storage
WindowBits(t, storage, k) == BitsAt(storage, k, BITS(t))

C22_ChildWindow ==
    /\ ty.kind = "struct" =>
           \A p \in PathsTable[ty] :
               window_at(ty, p, Len(p)) = BitsMut_new(StorageBits(ty), AbsOffset(ty, p))
    /\ op = "mut_get" => SameOutcome(out, get_path(ty, val.v, arg))
    /\ op = "mut_set" => SameOutcome(get_path(ty, val.v, arg.path), Some(arg.value))
\* C23: along any sequence of set_<field>(v) calls on a struct value, the
\* getter of the field just set returns v and the getter of every other
\* field returns what it returned before the call; so every getter returns
\* the value most recently set on its field, or the initial one.
C23_SettersIndependent ==
    [][op' = "set_field" =>
          LET i == arg'.path[1]
          IN  /\ SameOutcome(field_access(ty, val'.v, i), Some(arg'.value))
              /\ \A j \in 1 .. Len(ty.fields) :
                     j # i => SameOutcome(field_access(ty, val'.v, j),
                                          field_access(ty, val.v, j))]_vars
\* C24: a window created at offset 0 over a u64 storage holding to_bits(v)
\* returns v from get(), and after set(v2) returns v2 from get(), for all
\* values v and v2 of the piece type.
C24_WindowGetSet ==
    (/\ op \in {"get", "set_get"}
     /\ val.v.m = BitsMut_new(64, 0)
     /\ \E v \in ValuesOf(ty) : val.v.initial = to_bits(ty, v)) =>
        /\ op = "get" =>
               \A v \in ValuesOf(ty) :
                   val.v.initial = to_bits(ty, v) => SameOutcome(out, Some(v))
        /\ op = "set_get" => SameOutcome(out, Some(arg))
SameFields(t, a, b) ==
    /\ to_fields(t, a).tag = "Some"
    /\ SameOutcome(to_fields(t, a), to_fields(t, b))

\* C26: storage bits that no declared field covers are not meaningful: two
\* values of a struct type that agree on every declared field compare equal
\* under const_eq and have the same effect when a setter stores them into a
\* parent piece.
C26_UncoveredBitsMeaningless ==
    (ty.kind = "struct" /\ val.tag = "Some") =>
        \A w \in ValuesOf(ty) :
            SameFields(ty, w, val.v) =>
                /\ const_eq(ty, w, val.v)
                /\ \A P \in StructTypes : \A i \in 1 .. Len(P.fields) :
                       P.fields[i] = ty =>
                           \A base \in ValuesOf(P) :
                               field_set(P, base, i, w) = field_set(P, base, i, val.v)
\* C27: extract_bits_noshift(value, offset, len) is value & (mask(len) <<
\* offset), which is extract_bits(value, offset, len) << offset; so the
\* <field>_noshift getter returns the field's bits at their position in the
\* storage with every other bit cleared.
C27_ExtractBitsNoshift ==
    /\ op = "extract_bits_noshift" =>
           /\ out.v = arg.value \cap RangeBits(arg.offset, arg.len)
           /\ out.v = Shl(extract_bits(arg.value, arg.offset, arg.len), arg.offset, 64)
    /\ op = "field_noshift" =>
           LET offset == FieldOffset(arg.ty, arg.i)
               len == BITS(arg.ty.fields[arg.i])
           IN  /\ out.v = arg.storage \cap RangeBits(offset, len)
               /\ BitsAt(out.v, offset, len) = BitsAt(arg.storage, offset, len)

\* the noshift getter of a field away from bit 0, with bits set on both sides
C27_Witness ==
    /\ op = "field_noshift"
    /\ arg.ty = Deep
    /\ arg.i = 2
    /\ arg.storage = {0, 5, 6}
    /\ out.v = {5}
\* C28: for every value v of every piece type T that the safe operations
\* produce, to_bits(v) has no bit set at or above position T::BITS.
C28_ToBitsBelowLength ==
    val.tag = "Some" => to_bits(ty, val.v) \subseteq 0 .. (BITS(ty) - 1)
\* the discriminant d fits in bits bits: d < 2^bits
FitsIn(d, bits) == FromNat(d) \subseteq 0 .. (bits - 1)

\* C29: every declared discriminant d of an enum that compiles satisfies
\* d < 2^BITS, also when the bit length is given explicitly: an explicit
\* bit length too small for the largest discriminant is rejected when the
\* enum is declared.
C29_DiscriminantsFit ==
    /\ (op \in {"declare_enum", "declare_enum_explicit"} /\ out.tag = "Some") =>
           \A k \in 1 .. Len(ty.variants) : FitsIn(ty.variants[k], out.v.BITS)
    /\ (op = "declare_enum_explicit"
            /\ \E k \in 1 .. Len(ty.variants) : ~FitsIn(ty.variants[k], ty.bits)) =>
           out = SchemaError
\* what a step through a window does to a storage it reaches past: the set
\* does not panic, keeps the storage within its width and the bits below the
\* window, and writes the bits of the new value that fall inside the storage;
\* the get reads the bits past the end of the storage as zero
WindowStepPastStorage ==
    LET w == val.v
        W == w.m.width
        k == w.m.start_bit_index
        n == BITS(ty)
    IN  /\ op' = "set" =>
               /\ val'.tag = "Some"
               /\ val'.v.storage \subseteq 0 .. (W - 1)
               /\ k + n > W =>
                      val'.v.storage =
                          {b \in w.storage : b < k}
                              \cup {b + k : b \in {c \in to_bits(ty, arg') : c + k < W}}
        /\ (op' \in {"get", "set_get"} /\ k + n > W) =>
               /\ WindowBits(ty, w.storage, k) \subseteq 0 .. (W - k - 1)
               /\ SameOutcome(out', from_bits(ty, WindowBits(ty, w.storage, k)))

\* C30: BitPieceStorageMutRef::set stores its argument truncated to the
\* width of the referenced storage and get zero-extends it; a window whose
\* base offset plus length exceeds that width is not rejected: its set does
\* not panic and drops the bits beyond the storage, and its get reads those
\* bits as zero.
C30_WindowPastStorage ==
    [][val.tag = "Some" => WindowStepPastStorage]_vars

\* C30, for the windows that start below bit 64: the same, where the shifts
\* of the u64 do not overflow.
C30_WindowPastStorageBelow64 ==
    [][(val.tag = "Some" /\ ~ShiftOverflows(val.v.m.start_bit_index)) =>
           WindowStepPastStorage]_vars

\* B3 written at bit 6 of a u8: the top bit of 0b101 is dropped and read
\* back as zero
C30_Witness ==
    /\ ty = BTy(3)
    /\ op = "set_get"
    /\ val.v.m = BitsMut_new(8, 6)
    /\ arg = {0, 2}
    /\ val.v.storage \cap {6, 7} = {6}
    /\ out = Some({0})
====
